---- MODULE Spec2Model ----
(***************************************************************************)
(* Model of nmma/em/create_lightcurves.py (function main): model dispatch, *)
(* the per-injection get-or-compute loop over "<outdir>/<index>.dat"       *)
(* artifacts, the np.arange time grid and the plot stage's data shaping.   *)
(***************************************************************************)
EXTENDS Integers, Sequences, FiniteSets, TLC

\* ------------------------------------------------------------- bounds
MaxRuns == 3
MaxWorkerRuns == 2
MaxT == 5
MaxStep == 3
MaxAggTime == 3

\* ------------------------------------------------------------- domains
Proc == {1, 2}
Indices == {0, 1, 2}
ModelNames == {"TrPi2018", "nugent-hyper", "salt2", "Bu2019lm"}
Keys == {"geocent_time_x", "geocent_time"}
None == "None"

VARIABLES
    env,        \* what the operator does: per process, how many invocations of
                \* main (quota) on injection files with which row indices
                \* (scope) and rows (rows), and the command lines used (menu)
    runs,       \* invocations of main started so far, per process
    pc,         \* position of each process inside main
    args,       \* parsed command line of the running invocation
    lcModel,    \* light_curve_model
    table,      \* injection_df: index -> row
    todo,       \* rows of injection_df.iterrows() not yet visited
    data,       \* result of create_light_curve_data for the current row
    off,        \* write offset of the open outfile
    buf,        \* what outfile.read() has read so far of the file open for reading
    mag_ds,     \* mag_ds: index -> loaded or computed series
    err,        \* exception that ended the invocation
    file,       \* output directory: file name -> content
    synthCount, \* calls of create_light_curve_data per index (history)
    opens,      \* open(..., "w") calls per file name (history)
    writers,    \* processes that opened a file name for writing (history)
    touched,    \* file names the running invocation opened for writing (history)
    served,     \* completed loop bodies per index: <<how, value>> (history)
    grid,       \* time grid stage: inputs (tenths of a day) and np.arange result
    agg         \* plot stage: inputs and data_out rows

procVars == <<env, runs, pc, args, lcModel, table, todo, data, off, buf, mag_ds, err>>
histVars == <<synthCount, opens, writers, touched, served>>
vars == <<procVars, file, histVars, grid, agg>>

\* ------------------------------------------------------------- inputs
\* One injection row: a dict holding any subset of the trigger-time keys.
Rows == { [k \in K |-> IF k = "geocent_time_x" THEN 0 ELSE 86400] : K \in SUBSET Keys }
\* Rows holding exactly one of the keys.
KeyedRows == { r \in Rows : Cardinality(DOMAIN r) = 1 }
\* An injection table: rows under a subset of a process's indices.
Tables(S, R) == UNION { [D -> R] : D \in SUBSET S }
ArgSets == [model : ModelNames, joint : BOOLEAN]
NoArgs == [model |-> None, joint |-> FALSE]
PlainArgs == [model |-> "Bu2019lm", joint |-> FALSE]
NoFile == [exists |-> FALSE, content |-> <<>>]

Min(S) == CHOOSE m \in S : \A n \in S : m <= n
\* line 269, injection_df.iterrows(): the rows in the order the frame stores
\* them, which is any order of the index labels.
Orders(S) ==
    { s \in [1..Cardinality(S) -> S] : \A i, j \in 1..Cardinality(S) : i # j => s[i] # s[j] }
RECURSIVE Ascending(_)
\* The elements of a set of times in increasing order.
Ascending(S) == IF S = {} THEN <<>> ELSE <<Min(S)>> \o Ascending(S \ {Min(S)})

\* ------------------------------------------------------------- model dispatch
\* Variant: the assertion is left out.
AssertNoAssert(model) == TRUE
\* line 200: assert args.model != "TrPi2018"
AssertNotGRB(model) == model # "TrPi2018"
\* line 202: if args.model != "nugent-hyper" or args.model != "salt2"
JointKilonovaGuard(model) == model # "nugent-hyper" \/ model # "salt2"
\* lines 198-250: the model class constructed, or the exception raised.
BuildModel(a) ==
    IF a.joint
    THEN IF ~AssertNotGRB(a.model) THEN "AssertionError"
         ELSE IF JointKilonovaGuard(a.model) THEN "KilonovaGRBLightCurveModel"
         ELSE "SupernovaGRBLightCurveModel"
    ELSE IF a.model = "TrPi2018" THEN "GRBLightCurveModel"
         ELSE IF a.model = "nugent-hyper" \/ a.model = "salt2" THEN "SupernovaLightCurveModel"
         ELSE "SVDLightCurveModel"

\* ------------------------------------------------------------- per-row helpers
\* line 271: os.path.join(args.outdir, "%d.dat" % index); names are kept as the stem.
injection_outfile(index) == index
\* Variant: the existence test never succeeds.
IsFileNever(name) == FALSE
\* line 272: os.path.isfile(injection_outfile)
IsFile(name) == file[name].exists
\* Variant: a missing trigger time defaults to 0 instead of raising.
TriggerDefaulted(row) ==
    IF "geocent_time_x" \in DOMAIN row THEN [ok |-> TRUE, gps |-> row["geocent_time_x"]]
    ELSE IF "geocent_time" \in DOMAIN row THEN [ok |-> TRUE, gps |-> row["geocent_time"]]
    ELSE [ok |-> TRUE, gps |-> 0]
\* lines 279-282: the gps trigger time, or the KeyError of the fallback lookup.
TriggerGps(row) ==
    IF "geocent_time_x" \in DOMAIN row THEN [ok |-> TRUE, gps |-> row["geocent_time_x"]]
    ELSE IF "geocent_time" \in DOMAIN row THEN [ok |-> TRUE, gps |-> row["geocent_time"]]
    ELSE [ok |-> FALSE, gps |-> 0]
\* line 283: astropy Time(..., format="gps").mjd, in whole days.
GpsToMjd(gps) == 44244 + (gps \div 86400)
\* lines 287-292: create_light_curve_data: magnitudes of one filter on two times.
Synthesize(trigger_time) ==
    << (0 - 16) - (trigger_time % 2), (0 - 15) - (trigger_time % 2) >>

\* json text of a series, as the chunks json.dump hands to write().
NumToken(m) == CASE m = 0 - 17 -> "-17.0" [] m = 0 - 16 -> "-16.0"
                 [] m = 0 - 15 -> "-15.0"
TokenNum(t) == CASE t = "-17.0" -> 0 - 17 [] t = "-16.0" -> 0 - 16
                 [] t = "-15.0" -> 0 - 15
NumTokens == {"-17.0", "-16.0", "-15.0"}
\* line 296: json.dump(data, outfile, cls=NumpyEncoder)
Encode(d) == <<"{">> \o [i \in 1..Len(d) |-> NumToken(d[i])] \o <<"}">>
\* line 274: json.loads(outfile.read()); a truncated or holed text does not parse.
Decode(text) ==
    IF /\ Len(text) >= 2
       /\ text[1] = "{"
       /\ text[Len(text)] = "}"
       /\ \A i \in 2..(Len(text) - 1) : text[i] \in NumTokens
    THEN [ok |-> TRUE, value |-> [i \in 1..(Len(text) - 2) |-> TokenNum(text[i + 1])]]
    ELSE [ok |-> FALSE, value |-> <<>>]
\* write() of one chunk at the writer's own offset; a gap left by another
\* process's truncation reads back as NUL bytes.
WriteAt(content, k, tok) ==
    [i \in 1..(IF Len(content) > k + 1 THEN Len(content) ELSE k + 1) |->
        IF i = k + 1 THEN tok
        ELSE IF i <= Len(content) THEN content[i] ELSE "NUL"]

\* ------------------------------------------------------------- double arithmetic
\* Times are IEEE doubles.  Every double met here is a whole multiple of
\* 2^-56 (the spacing of doubles in [1/16, 1/8)), so a double v is held as the
\* natural number v * 2^56, written in limbs of 15 bits, lowest first, without
\* leading zero limbs (<<>> is 0.0).
Base == 2^15
RECURSIVE Norm(_)
Norm(x) == IF x # <<>> /\ x[Len(x)] = 0 THEN Norm(SubSeq(x, 1, Len(x) - 1)) ELSE x
Limb(x, i) == IF i <= Len(x) THEN x[i] ELSE 0
RECURSIVE AddFrom(_, _, _, _)
AddFrom(x, y, i, c) ==
    IF i > Len(x) /\ i > Len(y) THEN (IF c = 0 THEN <<>> ELSE <<c>>)
    ELSE <<(Limb(x, i) + Limb(y, i) + c) % Base>>
         \o AddFrom(x, y, i + 1, (Limb(x, i) + Limb(y, i) + c) \div Base)
Add(x, y) == AddFrom(x, y, 1, 0)
RECURSIVE SubFrom(_, _, _, _)
SubFrom(x, y, i, c) ==
    IF i > Len(x) THEN <<>>
    ELSE <<(Base + Limb(x, i) - Limb(y, i) - c) % Base>>
         \o SubFrom(x, y, i + 1, IF Limb(x, i) - Limb(y, i) - c < 0 THEN 1 ELSE 0)
\* x - y for x >= y
Sub(x, y) == Norm(SubFrom(x, y, 1, 0))
RECURSIVE LessFrom(_, _, _)
LessFrom(x, y, i) ==
    IF i = 0 THEN FALSE
    ELSE IF x[i] # y[i] THEN x[i] < y[i] ELSE LessFrom(x, y, i - 1)
Less(x, y) == IF Len(x) # Len(y) THEN Len(x) < Len(y) ELSE LessFrom(x, y, Len(x))
RECURSIVE MulFrom(_, _, _, _)
MulFrom(x, m, i, c) ==
    IF i > Len(x) THEN (IF c = 0 THEN <<>> ELSE <<c>>)
    ELSE <<(x[i] * m + c) % Base>> \o MulFrom(x, m, i + 1, (x[i] * m + c) \div Base)
\* x * m for 0 <= m <= Base
MulSmall(x, m) == Norm(MulFrom(x, m, 1, 0))
RECURSIVE Rem(_, _, _)
\* the remainder, modulo d, of the limbs i and above
Rem(x, d, i) == IF i > Len(x) THEN 0 ELSE (Rem(x, d, i + 1) * Base + x[i]) % d
\* x \div d and x % d for 0 < d <= Base
Quot(x, d) == Norm([i \in 1..Len(x) |-> (Rem(x, d, i + 1) * Base + x[i]) \div d])
Mod(x, d) == Rem(x, d, 1)
RECURSIVE Bits(_)
Bits(n) == IF n = 0 THEN 0 ELSE 1 + Bits(n \div 2)
BitLen(x) == IF x = <<>> THEN 0 ELSE 15 * (Len(x) - 1) + Bits(x[Len(x)])
\* x * 2^t
ShiftLeft(x, t) ==
    IF x = <<>> THEN <<>>
    ELSE [i \in 1..(t \div 15) |-> 0] \o MulSmall(x, 2 ^ (t % 15))
\* Round to nearest, ties to even, to 53 significant bits; sticky says that
\* the exact value lies strictly above x.
RoundTo53(x, sticky) ==
    LET s == BitLen(x) - 53
    IN  IF s <= 0 THEN x
        ELSE LET q == Quot(x, 2 ^ s)
                 r == Mod(x, 2 ^ s)
                 half == 2 ^ (s - 1)
                 up == r > half \/ (r = half /\ (sticky \/ q[1] % 2 = 1))
             IN  MulSmall(IF up THEN Add(q, <<1>>) ELSE q, 2 ^ s)
FAdd(x, y) == RoundTo53(Add(x, y), FALSE)
\* x - y for x >= y
FSub(x, y) == RoundTo53(Sub(x, y), FALSE)
FMulInt(i, x) == RoundTo53(MulSmall(x, i), FALSE)
\* lines 40-53: type=float on a decimal text with one fractional digit, given
\* as the number k of tenths: the double nearest to k / 10.
FromTenths(k) ==
    IF k = 0 THEN <<>>
    ELSE LET x == <<0, 0, 0, 0, k>>
         IN  Quot(RoundTo53(Quot(x, 10), Mod(x, 10) # 0), 16)
\* whole part of the exact quotient x / y, found bit by bit below 2^k
RECURSIVE FloorQuot(_, _, _, _)
FloorQuot(x, y, k, n) ==
    IF k = 0 THEN n
    ELSE LET t == n + 2 ^ (k - 1)
         IN  FloorQuot(x, y, k - 1, IF Less(x, MulSmall(y, t)) THEN n ELSE t)
\* ceil of the double x / y, for x >= 0 and y > 0: with n the whole part of
\* the exact quotient and r the remainder, the double quotient is n exactly
\* when r / y is at most half the spacing of doubles above n.
CeilFDiv(x, y) ==
    LET k == IF Less(x, y) THEN 0 ELSE BitLen(x) - BitLen(y) + 1
        n == FloorQuot(x, y, k, 0)
        r == Sub(x, MulSmall(y, n))
    IN  IF r = <<>> THEN n
        ELSE IF n = 0 THEN 1
        ELSE IF Less(y, ShiftLeft(r, 54 - Bits(n))) THEN n + 1 ELSE n

\* ------------------------------------------------------------- time grid
\* numpy.arange(start, stop, step) on doubles: ceil((stop - start) / step)
\* elements; the first is start, the second start + step, and element i is
\* start + i * delta with delta = (start + step) - start.
Arange(start, stop, step) ==
    LET n == IF Less(start, stop) THEN CeilFDiv(FSub(stop, start), step) ELSE 0
        next == FAdd(start, step)
        delta == FSub(next, start)
    IN  [i \in 1..n |-> IF i = 1 THEN start
                        ELSE IF i = 2 THEN next
                        ELSE FAdd(start, FMulInt(i - 1, delta))]
\* Variant: the stop is tmax, not tmax + dt.
SampleTimesOpenEnd(tmin, tmax, dt) ==
    Arange(FromTenths(tmin), FromTenths(tmax), FromTenths(dt))
\* line 196: sample_times = np.arange(args.tmin, args.tmax + args.dt, args.dt),
\* for --tmin, --tmax, --dt given in tenths of a day.
SampleTimes(tmin, tmax, dt) ==
    Arange(FromTenths(tmin), FAdd(FromTenths(tmax), FromTenths(dt)), FromTenths(dt))
\* lines 42, 48, 52: --tmin 0.0, --tmax 14.0, --dt 0.1, in tenths of a day.
DefaultGrid == [tmin |-> 0, tmax |-> 140, dt |-> 1]
\* Tenths of a day up to k tenths, and whole days up to k days.
Tenths(k) == (0..k) \cup {10 * j : j \in 1..k}
GridInputs ==
    {DefaultGrid} \cup
    { [tmin |-> a, tmax |-> b, dt |-> d] :
        a \in Tenths(MaxT), b \in Tenths(MaxT), d \in Tenths(MaxStep) \ {0} }
NoGrid == [tmin |-> 0, tmax |-> 0, dt |-> 1, times |-> <<>>, done |-> FALSE]

\* ------------------------------------------------------------- plot stage
Flags == [ztf_sampling : BOOLEAN, ztf_ToO : BOOLEAN, rubin_ToO : BOOLEAN,
          photometry_augmentation : BOOLEAN, injection_detection_limit : BOOLEAN]
NoFlags == [ztf_sampling |-> FALSE, ztf_ToO |-> FALSE, rubin_ToO |-> FALSE,
            photometry_augmentation |-> FALSE, injection_detection_limit |-> FALSE]
\* Variant: photometry augmentation is left out of the test.
ResampleSurveyOnly(f) == f.ztf_sampling \/ f.ztf_ToO \/ f.rubin_ToO
\* line 341: if ztf_sampling or ztf_ToO or rubin_ToO or photometry_augmentation
Resample(f) ==
    f.ztf_sampling \/ f.ztf_ToO \/ f.rubin_ToO \/ f.photometry_augmentation
\* numpy.searchsorted(x, t): how many recorded times lie before t.
SearchSorted(ds, t) == Cardinality({i \in 1..Len(ds) : ds[i][1] < t})
\* numpy.clip(v, lo, hi) = minimum(maximum(v, lo), hi)
Clip(v, lo, hi) == LET m == IF v < lo THEN lo ELSE v IN IF m > hi THEN hi ELSE m
\* lines 342-345: interp1d(..., fill_value="extrapolate")(t): the straight line
\* through the bracketing pair (the first or last pair outside the span), as
\* the fraction <<numerator, denominator>>.
Interp1d(ds, t) ==
    LET hi0 == Clip(SearchSorted(ds, t), 1, Len(ds) - 1)
        hi == ds[hi0 + 1]
        lo == ds[IF hi0 = 0 THEN Len(ds) ELSE hi0]
    IN  << (hi[2] - lo[2]) * (t - lo[1]) + lo[2] * (hi[1] - lo[1]), hi[1] - lo[1] >>
\* line 347: data_set[:, 1]
RawColumn(ds) == [i \in 1..Len(ds) |-> <<ds[i][2], 1>>]
\* A recorded series: magnitudes of one profile at a subset of the grid times.
Profile(k, t) == (0 - 16) + k * t * t
SeriesOn(k, T) == [i \in 1..Cardinality(T) |-> <<Ascending(T)[i], Profile(k, Ascending(T)[i])>>]
AggGrid == [i \in 1..(MaxAggTime + 1) |-> i - 1]
AggInputs ==
    { [flags |-> f, series |-> SeriesOn(k, T)] :
        f \in Flags, k \in {0, 1}, T \in SUBSET (0..MaxAggTime) }
NoAgg == [flags |-> NoFlags, series |-> <<>>, out |-> <<>>, err |-> None, done |-> FALSE]

\* ------------------------------------------------------------- main, step by step
Running == {"setup", "built", "loop", "load", "read", "params", "synth", "open", "write"}
Stopped == {"idle", "done", "failed", "killed"}
Index(p) == Head(todo[p])
Outfile(p) == injection_outfile(Index(p))

Raise(p, e) ==
    /\ pc' = [pc EXCEPT ![p] = "failed"]
    /\ err' = [err EXCEPT ![p] = e]

\* lines 187-196: a fresh invocation of main with some command line.
Start(p) ==
    /\ pc[p] \in Stopped
    /\ runs[p] < env.quota[p]
    /\ \E a \in env.menu : args' = [args EXCEPT ![p] = a]
    /\ runs' = [runs EXCEPT ![p] = @ + 1]
    /\ pc' = [pc EXCEPT ![p] = "setup"]
    /\ lcModel' = [lcModel EXCEPT ![p] = None]
    /\ table' = [table EXCEPT ![p] = <<>>]
    /\ todo' = [todo EXCEPT ![p] = <<>>]
    /\ data' = [data EXCEPT ![p] = <<>>]
    /\ off' = [off EXCEPT ![p] = 0]
    /\ buf' = [buf EXCEPT ![p] = <<>>]
    /\ mag_ds' = [mag_ds EXCEPT ![p] = <<>>]
    /\ err' = [err EXCEPT ![p] = None]
    /\ touched' = [touched EXCEPT ![p] = {}]
    /\ UNCHANGED <<env, file, synthCount, opens, writers, served, grid, agg>>

\* lines 198-250: the assertion and the construction of light_curve_model.
Build(p) ==
    /\ pc[p] = "setup"
    /\ IF BuildModel(args[p]) = "AssertionError"
       THEN Raise(p, "AssertionError") /\ UNCHANGED lcModel
       ELSE /\ lcModel' = [lcModel EXCEPT ![p] = BuildModel(args[p])]
            /\ pc' = [pc EXCEPT ![p] = "built"]
            /\ UNCHANGED err
    /\ UNCHANGED <<env, runs, args, table, todo, data, off, buf, mag_ds,
                   file, histVars, grid, agg>>

\* lines 252-268: the injection file is read; mag_ds = {}.
ReadInjection(p) ==
    /\ pc[p] = "built"
    /\ \E t \in Tables(env.scope[p], env.rows) : \E order \in Orders(DOMAIN t) :
          /\ table' = [table EXCEPT ![p] = t]
          /\ todo' = [todo EXCEPT ![p] = order]
    /\ pc' = [pc EXCEPT ![p] = "loop"]
    /\ UNCHANGED <<env, runs, args, lcModel, data, off, buf, mag_ds, err,
                   file, histVars, grid, agg>>

\* lines 269-272: next row, its outfile name and the isfile test; line 300 when
\* the rows are exhausted.
NextRow(p) ==
    /\ pc[p] = "loop"
    /\ pc' = [pc EXCEPT ![p] =
                 IF todo[p] = <<>> THEN "done"
                 ELSE IF IsFile(Outfile(p)) THEN "load" ELSE "params"]
    /\ UNCHANGED <<env, runs, args, lcModel, table, todo, data, off, buf,
                   mag_ds, err, file, histVars, grid, agg>>

\* line 273: open(injection_outfile, "r")
Load(p) ==
    /\ pc[p] = "load"
    /\ IF file[Outfile(p)].exists
       THEN /\ pc' = [pc EXCEPT ![p] = "read"]
            /\ buf' = [buf EXCEPT ![p] = <<>>]
            /\ UNCHANGED err
       ELSE Raise(p, "FileNotFoundError") /\ UNCHANGED buf
    /\ UNCHANGED <<env, runs, args, lcModel, table, todo, data, off, mag_ds,
                   file, histVars, grid, agg>>

\* lines 274-275: outfile.read() reads until a read returns nothing, each read
\* giving what the file holds beyond the reader's offset at that moment; then
\* json.loads parses what was read, the series is stored, continue.
Read(p) ==
    /\ pc[p] = "read"
    /\ LET c == file[Outfile(p)].content
           more == SubSeq(c, Len(buf[p]) + 1, Len(c))
           r == Decode(buf[p])
       IN  IF more # <<>>
           THEN /\ buf' = [buf EXCEPT ![p] = @ \o more]
                /\ UNCHANGED <<pc, mag_ds, served, todo, err>>
           ELSE /\ buf' = [buf EXCEPT ![p] = <<>>]
                /\ IF r.ok
                   THEN /\ mag_ds' = [mag_ds EXCEPT ![p] = (Index(p) :> r.value) @@ @]
                        /\ served' = [served EXCEPT ![Index(p)] =
                                         Append(@, [how |-> "loaded", value |-> r.value])]
                        /\ todo' = [todo EXCEPT ![p] = Tail(@)]
                        /\ pc' = [pc EXCEPT ![p] = "loop"]
                        /\ UNCHANGED err
                   ELSE /\ Raise(p, "JSONDecodeError")
                        /\ UNCHANGED <<mag_ds, served, todo>>
    /\ UNCHANGED <<env, runs, args, lcModel, table, data, off, file,
                   synthCount, opens, writers, touched, grid, agg>>

\* lines 277-285: the trigger time from geocent_time_x, else geocent_time.
Params(p) ==
    /\ pc[p] = "params"
    /\ IF TriggerGps(table[p][Index(p)]).ok
       THEN pc' = [pc EXCEPT ![p] = "synth"] /\ UNCHANGED err
       ELSE Raise(p, "KeyError")
    /\ UNCHANGED <<env, runs, args, lcModel, table, todo, data, off, buf,
                   mag_ds, file, histVars, grid, agg>>

\* lines 287-293: create_light_curve_data returns the series.
Synth(p) ==
    /\ pc[p] = "synth"
    /\ synthCount' = [synthCount EXCEPT ![Index(p)] = @ + 1]
    /\ data' = [data EXCEPT ![p] =
                   Synthesize(GpsToMjd(TriggerGps(table[p][Index(p)]).gps))]
    /\ pc' = [pc EXCEPT ![p] = "open"]
    /\ UNCHANGED <<env, runs, args, lcModel, table, todo, off, buf, mag_ds,
                   err, file, opens, writers, touched, served, grid, agg>>

\* lines 287-292: create_light_curve_data raises; nothing in main catches it.
SynthFails(p) ==
    /\ pc[p] = "synth"
    /\ synthCount' = [synthCount EXCEPT ![Index(p)] = @ + 1]
    /\ Raise(p, "ModelEvaluationError")
    /\ UNCHANGED <<env, runs, args, lcModel, table, todo, data, off, buf,
                   mag_ds, file, opens, writers, touched, served, grid, agg>>

\* line 295: open(injection_outfile, "w") creates or truncates the file.
Open(p) ==
    /\ pc[p] = "open"
    /\ file' = [file EXCEPT ![Outfile(p)] = [exists |-> TRUE, content |-> <<>>]]
    /\ off' = [off EXCEPT ![p] = 0]
    /\ opens' = [opens EXCEPT ![Outfile(p)] = @ + 1]
    /\ writers' = [writers EXCEPT ![Outfile(p)] = @ \cup {p}]
    /\ touched' = [touched EXCEPT ![p] = @ \cup {Outfile(p)}]
    /\ pc' = [pc EXCEPT ![p] = "write"]
    /\ UNCHANGED <<env, runs, args, lcModel, table, todo, data, buf, mag_ds,
                   err, synthCount, served, grid, agg>>

\* line 296: json.dump writes the text chunk by chunk.
Write(p) ==
    /\ pc[p] = "write"
    /\ off[p] < Len(Encode(data[p]))
    /\ file' = [file EXCEPT ![Outfile(p)] =
                   [exists |-> TRUE,
                    content |-> WriteAt(@.content, off[p], Encode(data[p])[off[p] + 1])]]
    /\ off' = [off EXCEPT ![p] = @ + 1]
    /\ UNCHANGED <<env, runs, pc, args, lcModel, table, todo, data, buf,
                   mag_ds, err, histVars, grid, agg>>

\* lines 295-298: the with block closes the file; mag_ds[index] = data.
Close(p) ==
    /\ pc[p] = "write"
    /\ off[p] = Len(Encode(data[p]))
    /\ mag_ds' = [mag_ds EXCEPT ![p] = (Index(p) :> data[p]) @@ @]
    /\ served' = [served EXCEPT ![Index(p)] =
                     Append(@, [how |-> "computed", value |-> data[p]])]
    /\ todo' = [todo EXCEPT ![p] = Tail(@)]
    /\ pc' = [pc EXCEPT ![p] = "loop"]
    /\ UNCHANGED <<env, runs, args, lcModel, table, data, off, buf, err,
                   file, synthCount, opens, writers, touched, grid, agg>>

\* The process is killed (power loss, job preemption, kill -9): its memory is
\* gone, the output directory stays as it is.
Kill(p) ==
    /\ pc[p] \in Running
    /\ pc' = [pc EXCEPT ![p] = "killed"]
    /\ args' = [args EXCEPT ![p] = NoArgs]
    /\ lcModel' = [lcModel EXCEPT ![p] = None]
    /\ table' = [table EXCEPT ![p] = <<>>]
    /\ todo' = [todo EXCEPT ![p] = <<>>]
    /\ data' = [data EXCEPT ![p] = <<>>]
    /\ off' = [off EXCEPT ![p] = 0]
    /\ buf' = [buf EXCEPT ![p] = <<>>]
    /\ mag_ds' = [mag_ds EXCEPT ![p] = <<>>]
    /\ touched' = [touched EXCEPT ![p] = {}]
    /\ UNCHANGED <<env, runs, err, file, synthCount, opens, writers, served, grid, agg>>

Step(p) ==
    \/ Start(p) \/ Build(p) \/ ReadInjection(p) \/ NextRow(p) \/ Load(p) \/ Read(p)
    \/ Params(p) \/ Synth(p) \/ SynthFails(p) \/ Open(p) \/ Write(p)
    \/ Close(p) \/ Kill(p)

Next == \E p \in Proc : Step(p)

InitProc ==
    /\ runs = [p \in Proc |-> 0]
    /\ buf = [p \in Proc |-> <<>>]
    /\ pc = [p \in Proc |-> "idle"]
    /\ args = [p \in Proc |-> NoArgs]
    /\ lcModel = [p \in Proc |-> None]
    /\ table = [p \in Proc |-> <<>>]
    /\ todo = [p \in Proc |-> <<>>]
    /\ data = [p \in Proc |-> <<>>]
    /\ off = [p \in Proc |-> 0]
    /\ mag_ds = [p \in Proc |-> <<>>]
    /\ err = [p \in Proc |-> None]
    /\ file = [n \in Indices |-> NoFile]
    /\ synthCount = [i \in Indices |-> 0]
    /\ opens = [n \in Indices |-> 0]
    /\ writers = [n \in Indices |-> {}]
    /\ touched = [p \in Proc |-> {}]
    /\ served = [i \in Indices |-> <<>>]

\* One process, invoked repeatedly on one output directory.
Init ==
    /\ InitProc
    /\ env = [quota |-> (1 :> MaxRuns) @@ (2 :> 0),
             scope |-> (1 :> {0, 1}) @@ (2 :> {}),
             menu |-> ArgSets, rows |-> Rows]
    /\ grid = NoGrid /\ agg = NoAgg

Spec == Init /\ [][Next]_vars

\* Two worker processes on one output directory, each given its own part of
\* one injection table as an injection file of its own.  main has no option
\* that selects rows, and lines 252-253, 267 give the rows of every decoded
\* file the labels 0, 1, ...: the one row of each part has index 0.
InitWorkers ==
    /\ InitProc
    /\ env = [quota |-> (1 :> MaxWorkerRuns) @@ (2 :> 1),
             scope |-> [p \in Proc |-> {0}],
             menu |-> {PlainArgs}, rows |-> KeyedRows]
    /\ grid = NoGrid /\ agg = NoAgg

SpecWorkers == InitWorkers /\ [][Next]_vars

\* Two processes on one output directory, given the same row indices.
InitShared ==
    /\ InitProc
    /\ env = [quota |-> [p \in Proc |-> 1],
             scope |-> [p \in Proc |-> {0, 1}],
             menu |-> {PlainArgs}, rows |-> KeyedRows]
    /\ grid = NoGrid /\ agg = NoAgg

SpecShared == InitShared /\ [][Next]_vars

\* ------------------------------------------------------------- stage specifications
procIdle == <<procVars, file, histVars>>

\* line 196 applied to one (tmin, tmax, dt).
MakeGrid ==
    /\ ~grid.done
    /\ grid' = [grid EXCEPT !.times = SampleTimes(grid.tmin, grid.tmax, grid.dt),
                            !.done = TRUE]
    /\ UNCHANGED <<procIdle, agg>>

InitGrid ==
    /\ InitProc
    /\ env = [quota |-> [p \in Proc |-> 0], scope |-> [p \in Proc |-> {}], menu |-> {},
             rows |-> {}]
    /\ \E g \in GridInputs :
          grid = [tmin |-> g.tmin, tmax |-> g.tmax, dt |-> g.dt,
                  times |-> <<>>, done |-> FALSE]
    /\ agg = NoAgg

SpecGrid == InitGrid /\ [][MakeGrid]_vars

\* lines 340-347 for one injection and one filter: the row appended to data_out.
Aggregate ==
    /\ ~agg.done
    /\ \/ /\ Len(agg.series) = 0
          /\ agg' = [agg EXCEPT !.err = "IndexError", !.done = TRUE]
       \/ /\ Len(agg.series) >= 1
          /\ Resample(agg.flags)
          /\ agg' = [agg EXCEPT
                        !.out = [i \in 1..Len(AggGrid) |-> Interp1d(agg.series, AggGrid[i])],
                        !.done = TRUE]
       \/ /\ Len(agg.series) = 1
          /\ Resample(agg.flags)
          /\ agg' = [agg EXCEPT !.err = "ValueError", !.done = TRUE]
       \/ /\ Len(agg.series) >= 1
          /\ ~Resample(agg.flags)
          /\ agg' = [agg EXCEPT !.out = RawColumn(agg.series), !.done = TRUE]
    /\ UNCHANGED <<procIdle, grid>>

InitAgg ==
    /\ InitProc
    /\ env = [quota |-> [p \in Proc |-> 0], scope |-> [p \in Proc |-> {}], menu |-> {},
             rows |-> {}]
    /\ \E a \in AggInputs :
          agg = [flags |-> a.flags, series |-> a.series, out |-> <<>>,
                 err |-> None, done |-> FALSE]
    /\ grid = NoGrid

SpecAgg == InitAgg /\ [][Aggregate]_vars

\* ------------------------------------------------------------- claims
Keyless(p, i) == i \in DOMAIN table[p] /\ DOMAIN table[p][i] = {}
Complete(n) == file[n].exists /\ Decode(file[n].content).ok
Forbidden(a) == a.model = "TrPi2018" /\ a.joint

\* The composition the ordered decision rule of the specification fixes.
ExpectedComposition(a) ==
    IF a.joint
    THEN IF a.model \in {"nugent-hyper", "salt2"} THEN "SupernovaGRBLightCurveModel"
         ELSE "KilonovaGRBLightCurveModel"
    ELSE IF a.model = "TrPi2018" THEN "GRBLightCurveModel"
         ELSE IF a.model \in {"nugent-hyper", "salt2"} THEN "SupernovaLightCurveModel"
         ELSE "SVDLightCurveModel"

\* C1: for every (model name, joint flag) other than (TrPi2018, joint), the
\* model constructed is the composition fixed by the ordered decision rule; in
\* joint mode nugent-hyper and salt2 give the supernova+GRB composite.
C1_DispatchRule ==
    \A p \in Proc :
        (lcModel[p] # None /\ ~Forbidden(args[p]))
            => lcModel[p] = ExpectedComposition(args[p])

\* C2: TrPi2018 with the joint flag fails with the assertion's error, and
\* nothing was built, no injection table was read and no artifact file was
\* opened for writing by that invocation.
C2_GrbJointRejected ==
    \A p \in Proc :
        Forbidden(args[p]) =>
            /\ pc[p] \in {"setup", "failed"}
            /\ pc[p] = "failed" => err[p] = "AssertionError"
            /\ lcModel[p] = None
            /\ table[p] = <<>> /\ todo[p] = <<>> /\ mag_ds[p] = <<>>
            /\ touched[p] = {}
C2_Witness ==
    \E p \in Proc :
        /\ Forbidden(args[p]) /\ pc[p] = "failed" /\ err[p] = "AssertionError"
        /\ runs[p] = 2 /\ Complete(0)

\* C3: of the completed get-or-compute executions of one index, every one
\* after the first is served from the artifact, without synthesis, and returns
\* the value the first one returned.
C3_CacheIdempotence ==
    \A i \in Indices :
        \A k \in 2..Len(served[i]) :
            /\ served[i][k].how = "loaded"
            /\ served[i][k].value = served[i][1].value
C3_Witness ==
    \E i \in Indices :
        /\ Len(served[i]) = 2
        /\ served[i][1].how = "computed"
        /\ served[i][2].how = "loaded"
        /\ synthCount[i] = 1

\* C4: whenever no process is in the middle of writing it, an artifact file
\* either does not exist or holds a complete result.
C4_AtomicPersistence ==
    \A n \in Indices :
        (~ \E p \in Proc : pc[p] = "write" /\ Outfile(p) = n)
            => (~file[n].exists \/ Complete(n))

C6_KeylessAlwaysRaises ==
    \A p \in Proc : \A i \in DOMAIN mag_ds[p] : ~Keyless(p, i)
\* A keyless row reaches neither synthesis nor an open; KeyError is raised
\* only at a keyless row whose artifact does not exist, with nothing of that
\* index written or stored; a failure at a keyless row is KeyError when the
\* artifact does not exist and JSONDecodeError when it exists incomplete; and
\* a keyless row that was passed was read from a complete artifact.
C6_KeylessInv ==
    \A p \in Proc :
        /\ pc[p] \in {"synth", "open", "write"} => ~Keyless(p, Index(p))
        /\ \A i \in DOMAIN mag_ds[p] :
              Keyless(p, i) =>
                  /\ injection_outfile(i) \notin touched[p]
                  /\ Complete(injection_outfile(i))
                  /\ mag_ds[p][i] = Decode(file[injection_outfile(i)].content).value
        /\ err[p] = "KeyError" =>
              /\ pc[p] = "failed" /\ Keyless(p, Index(p))
              /\ ~file[Outfile(p)].exists
              /\ Outfile(p) \notin touched[p]
              /\ Index(p) \notin DOMAIN mag_ds[p]
        /\ (pc[p] = "failed" /\ todo[p] # <<>> /\ Keyless(p, Index(p))) =>
              IF file[Outfile(p)].exists
              THEN err[p] = "JSONDecodeError" /\ ~Complete(Outfile(p))
              ELSE err[p] = "KeyError"
\* What the invocation does next at a keyless row, unless it is killed: with
\* no artifact it raises KeyError; with an artifact it opens and reads it, and
\* the end of the read stores the row and continues for a complete artifact
\* and raises JSONDecodeError for an incomplete one.
C6_KeylessAct ==
    \A p \in Proc :
        (todo[p] # <<>> /\ Keyless(p, Index(p)) /\ pc'[p] \notin {pc[p], "killed"}) =>
            /\ pc[p] = "loop" =>
                  pc'[p] = IF file[Outfile(p)].exists THEN "load" ELSE "params"
            /\ pc[p] = "params" => (pc'[p] = "failed" /\ err'[p] = "KeyError")
            /\ pc[p] = "load" => pc'[p] = "read"
            /\ pc[p] = "read" =>
                  IF Complete(Outfile(p))
                  THEN /\ pc'[p] = "loop" /\ err'[p] = err[p]
                       /\ Index(p) \in DOMAIN mag_ds'[p]
                       /\ file' = file /\ synthCount' = synthCount
                  ELSE pc'[p] = "failed" /\ err'[p] = "JSONDecodeError"
\* C6 amended: a row with neither key whose artifact does not exist raises
\* KeyError before the model is evaluated, and the invocation creates no file
\* for that index.  When the artifact exists the keys are not looked at: a
\* complete artifact is loaded and the row is passed without error, an
\* incomplete one raises JSONDecodeError, never the missing-field error.
C6_KeylessRaisesUnlessCached == []C6_KeylessInv /\ [][C6_KeylessAct]_vars
\* A keyless row has been passed from its artifact.
C6_ServedWitness ==
    \E p \in Proc : \E i \in DOMAIN mag_ds[p] : Keyless(p, i)
\* A keyless row has failed on an incomplete artifact.
C6_TruncatedWitness ==
    \E p \in Proc :
        /\ pc[p] = "failed" /\ err[p] = "JSONDecodeError"
        /\ todo[p] # <<>> /\ Keyless(p, Index(p))
C6_Witness ==
    \E p \in Proc :
        /\ pc[p] = "failed" /\ err[p] = "KeyError" /\ Keyless(p, Index(p))
        /\ ~file[Outfile(p)].exists /\ synthCount[Index(p)] = 0
        /\ Len(todo[p]) = 1 /\ DOMAIN mag_ds[p] # {}

\* C7 as stated: the grid has floor((tmax - tmin) / dt) + 1 points.
C7_FloorLength ==
    (grid.done /\ grid.tmin <= grid.tmax)
        => Len(grid.times) = ((grid.tmax - grid.tmin) \div grid.dt) + 1
WholeDays(g) == g.tmin % 10 = 0 /\ g.tmax % 10 = 0 /\ g.dt % 10 = 0
\* C7 amended: the grid starts at tmin and has ceil of the double quotient
\* ((tmax + dt) - tmin) / dt points.  For whole-number tmin, tmax, dt that is
\* ceil((tmax - tmin) / dt) + 1 points tmin + i * dt, which is floor + 1 with
\* last point tmax exactly when dt divides tmax - tmin and floor + 2 with the
\* last point beyond tmax otherwise; for decimal values it is that number or
\* one more (0.0, 0.2, 0.1 gives 4 points); and for the defaults 0.0, 14.0,
\* 0.1 it is 141 points from 0.0 to 14.0.
C7_CeilLength ==
    (grid.done /\ grid.tmin <= grid.tmax) =>
        LET n == Len(grid.times)
            span == grid.tmax - grid.tmin
            exact == (0 - ((0 - span) \div grid.dt)) + 1
        IN  /\ n \in {exact, exact + 1}
            /\ grid.times[1] = FromTenths(grid.tmin)
            /\ WholeDays(grid) =>
                  /\ n = exact
                  /\ \A i \in 1..n :
                        grid.times[i] = FromTenths(grid.tmin + (i - 1) * grid.dt)
                  /\ (span % grid.dt = 0) =>
                        (n = (span \div grid.dt) + 1 /\ grid.times[n] = FromTenths(grid.tmax))
                  /\ (span % grid.dt # 0) =>
                        (n = (span \div grid.dt) + 2 /\ Less(FromTenths(grid.tmax), grid.times[n]))
            /\ (grid.tmin = 0 /\ grid.tmax = 2 /\ grid.dt = 1) => n = 4
            /\ (grid.tmin = 0 /\ grid.tmax = 140 /\ grid.dt = 1) =>
                  (n = 141 /\ grid.times[1] = <<>> /\ grid.times[141] = FromTenths(140))
C7_Witness ==
    /\ grid.done /\ grid.tmin = 0 /\ grid.tmax = 140 /\ grid.dt = 1
    /\ Len(grid.times) = 141 /\ grid.times[141] = FromTenths(140)

\* A failed invocation has handled none of the rows after the failing one,
\* and synthesis starts only for an index whose artifact does not exist.
C8_AbortInv ==
    \A p \in Proc :
        /\ pc[p] = "failed" =>
              \A k \in 2..Len(todo[p]) :
                  /\ todo[p][k] \notin DOMAIN mag_ds[p]
                  /\ injection_outfile(todo[p][k]) \notin touched[p]
        /\ pc[p] = "synth" => ~file[Outfile(p)].exists
\* A complete artifact stays as it is and its index is not synthesized again.
C8_KeepAct ==
    \A i \in Indices :
        Complete(injection_outfile(i)) =>
            /\ file'[injection_outfile(i)] = file[injection_outfile(i)]
            /\ synthCount'[i] = synthCount[i]
\* C8: over any sequence of invocations on one output directory, a failed
\* invocation has handled none of the rows after the failing one, synthesis
\* starts only for an index whose artifact does not exist, and a complete
\* artifact stays as it is and its index is not synthesized again.
C8_Resumption == []C8_AbortInv /\ [][C8_KeepAct]_vars
C8_Witness ==
    /\ runs[1] = 2 /\ pc[1] = "done"
    /\ synthCount[0] = 1 /\ synthCount[1] = 2
    /\ Len(served[0]) = 2 /\ served[0][2].how = "loaded"
    /\ Len(served[1]) = 1 /\ served[1][1].how = "computed"

AnyRealismFlag(f) == Resample(f) \/ f.injection_detection_limit
\* C9 as stated (for a series of at least two points): with any realism flag
\* active, detection limiting included, the row has one value per grid time.
C9_AnyFlagResamples ==
    (agg.done /\ Len(agg.series) >= 2 /\ AnyRealismFlag(agg.flags))
        => (agg.err = None /\ Len(agg.out) = Len(AggGrid))
\* C9 amended: with a survey-sampling flag (ztf_sampling, ztf_ToO, rubin_ToO)
\* or photometry augmentation active, a series of at least two points is
\* resampled to one value per grid time; otherwise, detection limiting
\* included, a non-empty series' raw magnitudes are used unchanged.
C9_SurveyFlagsResample ==
    agg.done =>
        /\ (Len(agg.series) >= 2 /\
            (agg.flags.ztf_sampling \/ agg.flags.ztf_ToO \/ agg.flags.rubin_ToO
             \/ agg.flags.photometry_augmentation)) =>
              /\ agg.err = None
              /\ Len(agg.out) = Len(AggGrid)
              /\ \A i \in 1..Len(AggGrid) : agg.out[i][2] # 0
              /\ \A i \in 1..Len(AggGrid) : \A j \in 1..Len(agg.series) :
                    agg.series[j][1] = AggGrid[i] =>
                        agg.out[i][1] = agg.series[j][2] * agg.out[i][2]
        /\ (Len(agg.series) >= 1 /\
            ~(agg.flags.ztf_sampling \/ agg.flags.ztf_ToO \/ agg.flags.rubin_ToO
              \/ agg.flags.photometry_augmentation)) =>
              /\ agg.err = None
              /\ Len(agg.out) = Len(agg.series)
              /\ \A i \in 1..Len(agg.series) : agg.out[i] = <<agg.series[i][2], 1>>
C9_Witness ==
    /\ agg.done /\ agg.flags.photometry_augmentation /\ ~agg.flags.ztf_sampling
    /\ Len(agg.series) = 2 /\ Len(agg.out) = Len(AggGrid)
    /\ agg.series[2][1] < AggGrid[Len(AggGrid)]

\* C10: the artifact of an index is opened for writing at most once over all
\* invocations and processes.
C10_WriteOnce == \A n \in Indices : opens[n] <= 1

====
